---- MODULE Spec2Model ----
(***************************************************************************)
(* State-machine model of the AR capture screen (class App and the startup *)
(* support query) and of the review script.  Every browser callback is one *)
(* action; what the browser hands to a callback (a viewer pose, hit-test   *)
(* results, a resolved or rejected promise) is an input chosen with \E.    *)
(***************************************************************************)
EXTENDS Integers, Sequences, FiniteSets, TLC

\* ------------------------------------------------------------------ bounds
\* the height (y) of a pose position ranges over 0..MaxCoord
MaxCoord == 1
\* select events delivered in one run
MaxSelects == 2
\* clicks on the capture button in one run
MaxClicks == 2

\* ------------------------------------------------------------ value spaces
Coords    == 0..MaxCoord
Positions == [x : {0}, y : Coords, z : {0}]
Origin    == [x |-> 0, y |-> 0, z |-> 0]      \* default Object3D position

\* frame.getHitTestResults(): the code looks at the length and at element 0
HitResult      == {[hasPose |-> FALSE, position |-> Origin]}
                    \cup {[hasPose |-> TRUE, position |-> p] : p \in Positions}
HitTestResults == {<< >>} \cup {<<h>> : h \in HitResult}

\* localStorage.getItem yields null or a string
JsNull      == [isNull |-> TRUE,  str |-> ""]
JsString(s) == [isNull |-> FALSE, str |-> s]
\* JavaScript truthiness of such a value, as tested by if (imageData);
\* Truthy_notNull is the test imageData !== null instead
Truthy_notNull(v) == ~v.isNull
Truthy(v) == (~v.isNull) /\ v.str # ""

ImageKey  == "capturedImage"
OldImage  == "data:image/png;base64,OLD"
InitialStores == { << >>,
                   (ImageKey :> ""),
                   (ImageKey :> OldImage) }

VARIABLES
  page,                 \* document currently loaded: "capture" or "review"
  localStorage,         \* function from keys to strings
  \* ---- startup support query (async IIFE) and script evaluation
  xrEnv,                \* "noXR", "noIsSessionSupported" or "present"
  scriptPc,             \* "iife", "class", "loaded": top-level evaluation
  startupPc,            \* "init", "awaiting", "registered" (listener added),
                        \* "noXR" (onNoXRDevice called), "rejected" (threw)
  windowApp,            \* window.app has been assigned
  enterArHandler,       \* handler registered on #enter-ar ("none" if none)
  \* ---- App fields
  sessionPc,            \* position of activateXR / onSessionStarted
  xrSession, localReferenceSpace, viewerSpace, hitTestSource,
  pendingXRFrame,       \* number of scheduled, not yet invoked onXRFrame
  selectListener,
  gltfPc,               \* "none", "loading", "loaded", "threw"
  hasShadowMesh,        \* the lit scene has a child named shadowMesh
  shadowY,
  reticle, reticleVisible, reticlePosition,
  sunflower, sunflowerVisible, sunflowerPosition,
  stabilized,
  modelCloned,
  captureListener,      \* click listener on #capture-button
  captureContainerDisplay,
  promptDisplay,
  \* ---- capture pipelines, one per click
  captures,             \* sequence of [stage, report]
  videoOnloadeddata,    \* capture whose handler is video.onloadeddata, or 0
  videoLoading,         \* a loadeddata event is due on #video
  setItemCount, navCount,
  navigating,           \* window.location.href has been set to review.html
  \* ---- review script
  reviewPc,             \* "unloaded", "imageLoading", "imageFailed",
                        \* "blobPending", "ready", "alerted"
  arrivedByNavigation,
  imageData,            \* the value the review script read
  imgSrc, canvasDrawn, downloadConfigured, shareConfigured, reviewAlert,
  \* ---- observation
  selects,              \* select events delivered so far
  lastSelect,           \* what the last select did: "none", "placed", "ignored"
  reticleWritten,       \* some frame wrote a hit pose into the reticle
  reticleErrorLogged    \* console.error('Reticle is not found.') has run

startupVars == <<xrEnv, scriptPc, startupPc, windowApp, enterArHandler>>
sessionVars == <<sessionPc, xrSession, localReferenceSpace, viewerSpace,
                 hitTestSource, pendingXRFrame, selectListener>>
sceneVars   == <<gltfPc, hasShadowMesh, shadowY, reticle, reticleVisible,
                 reticlePosition, sunflower, sunflowerVisible,
                 sunflowerPosition, stabilized, modelCloned,
                 reticleWritten, reticleErrorLogged>>
uiVars      == <<captureListener, captureContainerDisplay, promptDisplay>>
captureVars == <<captures, videoOnloadeddata, videoLoading, setItemCount,
                 navCount, navigating>>
reviewVars  == <<reviewPc, arrivedByNavigation, imageData, imgSrc, canvasDrawn,
                 downloadConfigured, shareConfigured, reviewAlert>>
vars == <<page, localStorage, startupVars, sessionVars, sceneVars, uiVars,
          captureVars, reviewVars, selects, lastSelect>>

Init ==
  /\ page \in {"capture", "review"}
  /\ localStorage \in InitialStores
  \* nothing on the capture screen writes an empty string
  /\ (page = "capture" => localStorage # (ImageKey :> ""))
  /\ xrEnv \in {"noXR", "noIsSessionSupported", "present"}
  /\ scriptPc = "iife"
  /\ startupPc = "init"
  /\ windowApp = FALSE
  /\ enterArHandler = "none"
  /\ sessionPc = "idle"
  /\ xrSession = FALSE /\ localReferenceSpace = FALSE
  /\ viewerSpace = FALSE /\ hitTestSource = FALSE
  /\ pendingXRFrame = 0
  /\ selectListener = FALSE
  /\ gltfPc = "none"
  /\ hasShadowMesh = FALSE
  /\ shadowY = 0
  /\ reticle = FALSE /\ reticleVisible = FALSE /\ reticlePosition = Origin
  /\ sunflower = FALSE /\ sunflowerVisible = FALSE /\ sunflowerPosition = Origin
  /\ stabilized = FALSE
  /\ modelCloned = FALSE
  /\ captureListener = FALSE
  /\ captureContainerDisplay = "none"
  /\ promptDisplay = "none"
  /\ captures = << >>
  /\ videoOnloadeddata = 0
  /\ videoLoading = FALSE
  /\ setItemCount = 0 /\ navCount = 0
  /\ navigating = FALSE
  /\ reviewPc = "unloaded"
  /\ arrivedByNavigation = FALSE
  /\ imageData = JsNull
  /\ imgSrc = "" /\ canvasDrawn = FALSE
  /\ downloadConfigured = FALSE /\ shareConfigured = FALSE
  /\ reviewAlert = ""
  /\ selects = 0
  /\ lastSelect = "none"
  /\ reticleWritten = FALSE
  /\ reticleErrorLogged = FALSE

\* =================================================== startup support query
\* The async function runs synchronously up to its first await.  Without
\* navigator.xr or isSessionSupported the && chain short-circuits, nothing
\* is awaited and the else branch runs at once.
StartupIIFE ==
  /\ page = "capture" /\ scriptPc = "iife"
  /\ scriptPc' = "class"
  /\ IF xrEnv = "present"
       THEN /\ startupPc' = "awaiting"
       ELSE /\ startupPc' = "noXR"
  /\ UNCHANGED <<page, localStorage, xrEnv, windowApp, enterArHandler,
                 sessionVars, sceneVars, uiVars, captureVars, reviewVars,
                 selects, lastSelect>>

\* window.app = new App(): the constructor (in the first variant it also
\* shows the capture container)
AppConstructor_showsCapture ==
  /\ page = "capture" /\ scriptPc = "class"
  /\ scriptPc' = "loaded"
  /\ windowApp' = TRUE
  /\ captureListener' = TRUE
  /\ modelCloned' = FALSE
  /\ captureContainerDisplay' = "flex"
  /\ UNCHANGED <<page, localStorage, xrEnv, startupPc, enterArHandler,
                 sessionVars, gltfPc, hasShadowMesh, shadowY, reticle,
                 reticleVisible, reticlePosition, sunflower,
                 sunflowerVisible, sunflowerPosition, stabilized,
                 reticleWritten, reticleErrorLogged, promptDisplay, captureVars,
                 reviewVars, selects, lastSelect>>

AppConstructor ==
  /\ page = "capture" /\ scriptPc = "class"
  /\ scriptPc' = "loaded"
  /\ windowApp' = TRUE
  /\ captureListener' = TRUE
  /\ modelCloned' = FALSE
  /\ UNCHANGED <<page, localStorage, xrEnv, startupPc, enterArHandler,
                 sessionVars, gltfPc, hasShadowMesh, shadowY, reticle,
                 reticleVisible, reticlePosition, sunflower,
                 sunflowerVisible, sunflowerPosition, stabilized,
                 reticleWritten, reticleErrorLogged, captureContainerDisplay,
                 promptDisplay, captureVars, reviewVars, selects, lastSelect>>

\* The awaited isSessionSupported promise settles; the continuation is a
\* microtask, so it runs only after the script has been evaluated to its end.
\* answer: "true", "false" or "reject".
SupportQuerySettled(answer) ==
  /\ page = "capture" /\ scriptPc = "loaded" /\ startupPc = "awaiting"
  /\ CASE answer = "true" ->
            \* window.app.activateXR is read here; it throws if window.app
            \* is undefined and then nothing is registered
            IF windowApp
              THEN /\ enterArHandler' = "activateXR"
                   /\ startupPc' = "registered"
              ELSE /\ startupPc' = "rejected"
                   /\ UNCHANGED enterArHandler
       [] answer = "false" ->
            /\ startupPc' = "noXR"
            /\ UNCHANGED enterArHandler
       [] OTHER ->
            \* the await throws; the async function has no try/catch
            /\ startupPc' = "rejected"
            /\ UNCHANGED enterArHandler
  /\ UNCHANGED <<page, localStorage, xrEnv, scriptPc, windowApp, sessionVars,
                 sceneVars, uiVars, captureVars, reviewVars,
                 selects, lastSelect>>

\* ============================================================== activateXR
\* A click on #enter-ar starts requestSession.  (While an immersive session
\* is pending or active requestSession rejects at once and the catch only
\* calls onNoXRDevice again, which changes none of the state kept here.)
\* sessionPc "requestFailed" and "setupFailed" are the two ways into the
\* catch block, which logs and calls onNoXRDevice.
activateXR ==
  /\ page = "capture" /\ enterArHandler = "activateXR"
  /\ sessionPc \in {"idle", "requestFailed"}
  /\ sessionPc' = "requesting"
  /\ UNCHANGED <<page, localStorage, xrEnv, scriptPc, startupPc, windowApp,
                 enterArHandler, xrSession, localReferenceSpace, viewerSpace,
                 hitTestSource, pendingXRFrame, selectListener, sceneVars,
                 uiVars, captureVars, reviewVars, selects, lastSelect>>

\* setupThreeJs: renderer, scene, reticle, camera, start of the model load
setupThreeJs(shadowMesh) ==
  /\ hasShadowMesh' = shadowMesh
  /\ reticle' = TRUE
  /\ reticleVisible' = FALSE
  /\ reticlePosition' = Origin
  /\ gltfPc' = "loading"

\* requestSession resolved: createXRCanvas, then onSessionStarted up to its
\* first await.  layerOk = FALSE: createXRCanvas throws into the catch.
SessionGranted(layerOk, shadowMesh) ==
  /\ page = "capture" /\ sessionPc = "requesting"
  /\ xrSession' = TRUE
  /\ IF layerOk
       THEN /\ setupThreeJs(shadowMesh)
            /\ sessionPc' = "refLocal"
       ELSE /\ sessionPc' = "setupFailed"
            /\ UNCHANGED <<hasShadowMesh, reticle, reticleVisible,
                           reticlePosition, gltfPc>>
  /\ UNCHANGED <<page, localStorage, xrEnv, scriptPc, startupPc, windowApp,
                 enterArHandler, localReferenceSpace, viewerSpace,
                 hitTestSource, pendingXRFrame, selectListener, shadowY,
                 sunflower, sunflowerVisible, sunflowerPosition, stabilized,
                 modelCloned, reticleWritten, reticleErrorLogged, uiVars,
                 captureVars, reviewVars, selects, lastSelect>>

\* requestSession rejected: catch logs and calls onNoXRDevice
SessionDenied ==
  /\ page = "capture" /\ sessionPc = "requesting"
  /\ sessionPc' = "requestFailed"
  /\ UNCHANGED <<page, localStorage, xrEnv, scriptPc, startupPc, windowApp,
                 enterArHandler, xrSession, localReferenceSpace, viewerSpace,
                 hitTestSource, pendingXRFrame, selectListener, sceneVars,
                 uiVars, captureVars, reviewVars, selects, lastSelect>>

\* onSessionStarted, one await at a time
onSessionStarted ==
  /\ page = "capture"
  /\ sessionPc \in {"refLocal", "refViewer", "hitSource"}
  /\ CASE sessionPc = "refLocal" ->
            /\ localReferenceSpace' = TRUE
            /\ sessionPc' = "refViewer"
            /\ UNCHANGED <<viewerSpace, hitTestSource, pendingXRFrame,
                           selectListener>>
       [] sessionPc = "refViewer" ->
            /\ viewerSpace' = TRUE
            /\ sessionPc' = "hitSource"
            /\ UNCHANGED <<localReferenceSpace, hitTestSource, pendingXRFrame,
                           selectListener>>
       [] OTHER ->
            /\ hitTestSource' = TRUE
            /\ pendingXRFrame' = pendingXRFrame + 1
            /\ selectListener' = TRUE
            /\ sessionPc' = "running"
            /\ UNCHANGED <<localReferenceSpace, viewerSpace>>
  /\ UNCHANGED <<page, localStorage, startupVars, xrSession, sceneVars, uiVars,
                 captureVars, reviewVars, selects, lastSelect>>

\* one of the awaits of onSessionStarted rejects: activateXR's catch
onSessionStartedRejected ==
  /\ page = "capture"
  /\ sessionPc \in {"refLocal", "refViewer", "hitSource"}
  /\ sessionPc' = "setupFailed"
  /\ UNCHANGED <<page, localStorage, xrEnv, scriptPc, startupPc, windowApp,
                 enterArHandler, xrSession, localReferenceSpace, viewerSpace,
                 hitTestSource, pendingXRFrame, selectListener, sceneVars,
                 uiVars, captureVars, reviewVars, selects, lastSelect>>

\* the gltfLoader.load callback.  hasModel = FALSE: no child is named
\* Sketchfab_model, model.castShadow throws before this.sunflower is set.
gltfLoaded(hasModel) ==
  /\ page = "capture" /\ gltfPc = "loading"
  /\ IF hasModel
       THEN /\ sunflower' = TRUE
            /\ sunflowerPosition' = Origin
            /\ sunflowerVisible' = FALSE
            /\ gltfPc' = "loaded"
       ELSE /\ gltfPc' = "threw"
            /\ UNCHANGED <<sunflower, sunflowerPosition, sunflowerVisible>>
  /\ UNCHANGED <<page, localStorage, startupVars, sessionVars, hasShadowMesh,
                 shadowY, reticle, reticleVisible, reticlePosition, stabilized,
                 modelCloned, reticleWritten, reticleErrorLogged, uiVars,
                 captureVars, reviewVars, selects, lastSelect>>

\* ================================================================ onSelect
\* the test that guards the placement (canPlace_noClonedCheck: the same
\* without !this.modelCloned)
canPlace_noClonedCheck == sunflower
canPlace == (~modelCloned) /\ sunflower

onSelect ==
  /\ page = "capture" /\ selectListener
  /\ selects < MaxSelects
  /\ selects' = selects + 1
  /\ lastSelect' = IF canPlace THEN "placed" ELSE "ignored"
  /\ IF canPlace
       THEN /\ sunflowerPosition' = reticlePosition
            /\ sunflowerVisible' = TRUE
            /\ captureContainerDisplay' = "flex"
            /\ shadowY' = IF hasShadowMesh THEN reticlePosition.y ELSE shadowY
            /\ modelCloned' = TRUE
            /\ reticleVisible' = IF reticle THEN FALSE ELSE reticleVisible
       ELSE UNCHANGED <<sunflowerPosition, sunflowerVisible,
                        captureContainerDisplay, shadowY, modelCloned,
                        reticleVisible>>
  /\ UNCHANGED <<page, localStorage, startupVars, sessionVars, gltfPc,
                 hasShadowMesh, reticle, reticlePosition, sunflower,
                 stabilized, reticleWritten, reticleErrorLogged,
                 captureListener, promptDisplay, captureVars, reviewVars>>

\* =============================================================== onXRFrame
\* The callback is taken off the session's list when it is invoked and its
\* first statement schedules it again.  pose: getViewerPose returned a pose.
\* number of scheduled onXRFrame callbacks once this invocation has run
\* (rearm_onlyWithPose: requestAnimationFrame moved inside if (pose))
rearm_onlyWithPose(pose) ==
  IF pose THEN (pendingXRFrame - 1) + 1 ELSE pendingXRFrame - 1
rearm(pose) == (pendingXRFrame - 1) + 1

\* the test that guards the reticle update (canMoveReticle_noClonedCheck:
\* the same without !this.modelCloned)
canMoveReticle_noClonedCheck == reticle
canMoveReticle == reticle /\ ~modelCloned

onXRFrame(pose, hitTestResults) ==
  /\ page = "capture" /\ pendingXRFrame > 0
  /\ pendingXRFrame' = rearm(pose)
  /\ IF ~pose
       THEN UNCHANGED <<stabilized, reticleVisible, reticlePosition,
                        reticleWritten, reticleErrorLogged>>
       ELSE /\ stabilized' = (stabilized \/ Len(hitTestResults) > 0)
            /\ IF Len(hitTestResults) = 0
                 THEN UNCHANGED <<reticleVisible, reticlePosition,
                                  reticleWritten, reticleErrorLogged>>
                 ELSE IF ~hitTestResults[1].hasPose
                   \* getPose returned null: hitPose.transform throws
                   THEN UNCHANGED <<reticleVisible, reticlePosition,
                                    reticleWritten, reticleErrorLogged>>
                   ELSE IF canMoveReticle
                     THEN /\ reticleVisible' = TRUE
                          /\ reticlePosition' = hitTestResults[1].position
                          /\ reticleWritten' = TRUE
                          /\ UNCHANGED reticleErrorLogged
                     ELSE /\ reticleErrorLogged' = TRUE
                          /\ UNCHANGED <<reticleVisible, reticlePosition,
                                         reticleWritten>>
  /\ UNCHANGED <<page, localStorage, startupVars, sessionPc, xrSession,
                 localReferenceSpace, viewerSpace, hitTestSource,
                 selectListener, gltfPc, hasShadowMesh, shadowY, reticle,
                 sunflower, sunflowerVisible, sunflowerPosition, modelCloned,
                 uiVars, captureVars, reviewVars, selects, lastSelect>>

\* ============================================================ captureImage
\* canvas.toDataURL('image/png') of the canvas composed by capture i
DataURLs ==
  <<"data:image/png;base64,A", "data:image/png;base64,B",
    "data:image/png;base64,C", "data:image/png;base64,D">>
toDataURL(i) == DataURLs[((i - 1) % Len(DataURLs)) + 1]

\* localStorage.getItem / setItem
getItem(store, key) ==
  IF key \in DOMAIN store THEN JsString(store[key]) ELSE JsNull
setItem(store, key, value) ==
  [k \in (DOMAIN store) \cup {key} |-> IF k = key THEN value ELSE store[k]]

Running == {"raf", "gum", "video", "banner"}
Failed  == {"threw", "noPose", "noCamera", "denied", "composeError",
            "bannerError", "storeError"}
SetStage(i, st, rep) ==
  [captures EXCEPT ![i] = [stage |-> st, report |-> rep]]

\* A click on #capture-button.  The button sits in #capture-container, which
\* is shown only once the code sets its display to "flex".
captureImage ==
  /\ page = "capture" /\ captureListener
  /\ captureContainerDisplay = "flex"
  /\ Len(captures) < MaxClicks
  /\ promptDisplay' = "flex"
  /\ captures' = Append(captures,
                   IF xrSession
                     THEN [stage |-> "raf", report |-> "none"]
                     \* this.xrSession is undefined: TypeError
                     ELSE [stage |-> "threw", report |-> "uncaught"])
  /\ UNCHANGED <<page, localStorage, startupVars, sessionVars, sceneVars,
                 captureListener, captureContainerDisplay, videoOnloadeddata,
                 videoLoading, setItemCount, navCount,
                 navigating, reviewVars, selects, lastSelect>>

\* getCamerafeed, called from the frame callback.  hasMediaDevices: the test
\* navigator.mediaDevices && navigator.mediaDevices.getUserMedia; the if has
\* no else branch.
getCamerafeed(i, hasMediaDevices) ==
  IF hasMediaDevices
    THEN captures' = SetStage(i, "gum", "none")
    ELSE captures' = SetStage(i, "noCamera", "none")

\* the one-shot frame callback requested by captureImage
captureFrame(i, pose, hasMediaDevices) ==
  /\ page = "capture"
  /\ i \in 1..Len(captures) /\ captures[i].stage = "raf"
  /\ IF pose
       THEN getCamerafeed(i, hasMediaDevices)
       ELSE captures' = SetStage(i, "noPose", "log")
  /\ UNCHANGED <<page, localStorage, startupVars, sessionVars, sceneVars,
                 uiVars, videoOnloadeddata, videoLoading,
                 setItemCount, navCount, navigating, reviewVars,
                 selects, lastSelect>>

\* getUserMedia(...).then: the stream is attached to the shared #video
\* element and its onloadeddata handler is replaced
getUserMediaResolved(i) ==
  /\ page = "capture"
  /\ i \in 1..Len(captures) /\ captures[i].stage = "gum"
  /\ captures' = SetStage(i, "video", "none")
  /\ videoOnloadeddata' = i
  /\ videoLoading' = TRUE
  /\ UNCHANGED <<page, localStorage, startupVars, sessionVars, sceneVars,
                 uiVars, setItemCount, navCount, navigating,
                 reviewVars, selects, lastSelect>>

\* getUserMedia(...).catch
getUserMediaRejected(i) ==
  /\ page = "capture"
  /\ i \in 1..Len(captures) /\ captures[i].stage = "gum"
  /\ captures' = SetStage(i, "denied", "log+alert")
  /\ UNCHANGED <<page, localStorage, startupVars, sessionVars, sceneVars,
                 uiVars, videoOnloadeddata, videoLoading,
                 setItemCount, navCount, navigating, reviewVars,
                 selects, lastSelect>>

\* video.onloadeddata: draws the camera frame and calls combineCanvases,
\* whose synchronous part is wrapped in try/catch (alert on error) and ends
\* with the banner image loading.
combineCanvases(i, tryThrows) ==
  IF tryThrows
    THEN captures' = SetStage(i, "composeError", "alert")
    ELSE captures' = SetStage(i, "banner", "none")

videoLoadedData(tryThrows) ==
  /\ page = "capture"
  /\ videoLoading /\ videoOnloadeddata \in 1..Len(captures)
  /\ captures[videoOnloadeddata].stage = "video"
  /\ videoLoading' = FALSE
  /\ combineCanvases(videoOnloadeddata, tryThrows)
  /\ UNCHANGED <<page, localStorage, startupVars, sessionVars, sceneVars,
                 uiVars, videoOnloadeddata, setItemCount,
                 navCount, navigating, reviewVars, selects, lastSelect>>

\* bannerImage.onload.  It runs after combineCanvases has returned, so its
\* exceptions (drawImage, toDataURL, setItem over quota) are not caught by
\* the try block: drawOk = FALSE is such an exception, raised no later than
\* setItem.
\* localStorage.setItem of the composed image (storeImage_otherKey: under a
\* key the review script does not read)
storeImage_otherKey(i) == setItem(localStorage, "captured", toDataURL(i))
storeImage(i) == setItem(localStorage, ImageKey, toDataURL(i))

bannerOnload(i, drawOk) ==
  /\ page = "capture"
  /\ i \in 1..Len(captures) /\ captures[i].stage = "banner"
  /\ IF drawOk
       THEN /\ localStorage' = storeImage(i)
            /\ setItemCount' = setItemCount + 1
            /\ promptDisplay' = "none"
            /\ captures' = SetStage(i, "success", "log")
            /\ navigating' = TRUE
            /\ navCount' = navCount + 1
       ELSE /\ captures' = SetStage(i, "storeError", "uncaught")
            /\ UNCHANGED <<localStorage, setItemCount, promptDisplay,
                           navigating, navCount>>
  /\ UNCHANGED <<page, startupVars, sessionVars, sceneVars, captureListener,
                 captureContainerDisplay, videoOnloadeddata, videoLoading,
                 reviewVars, selects, lastSelect>>

\* bannerImage.onerror
bannerOnerror(i) ==
  /\ page = "capture"
  /\ i \in 1..Len(captures) /\ captures[i].stage = "banner"
  /\ captures' = SetStage(i, "bannerError", "alert")
  /\ UNCHANGED <<page, localStorage, startupVars, sessionVars, sceneVars,
                 uiVars, videoOnloadeddata, videoLoading,
                 setItemCount, navCount, navigating, reviewVars,
                 selects, lastSelect>>

\* ============================================================ review script
\* The browser carries out the navigation requested by the capture screen,
\* or the user opened review.html directly (page = "review" from the start);
\* either way the capture document is gone.
LoadReviewPage ==
  /\ page = "capture" /\ navigating
  /\ page' = "review"
  /\ arrivedByNavigation' = TRUE
  /\ UNCHANGED <<localStorage, startupVars, sessionVars, sceneVars, uiVars,
                 captureVars, reviewPc, imageData, imgSrc, canvasDrawn,
                 downloadConfigured, shareConfigured, reviewAlert,
                 selects, lastSelect>>

\* top level of the review script
ReviewScript ==
  /\ page = "review" /\ reviewPc = "unloaded"
  /\ imageData' = getItem(localStorage, ImageKey)
  /\ IF Truthy(imageData')
       THEN /\ imgSrc' = imageData'.str
            /\ reviewPc' = "imageLoading"
            /\ UNCHANGED reviewAlert
       ELSE /\ reviewAlert' = "No image data available."
            /\ reviewPc' = "alerted"
            /\ UNCHANGED imgSrc
  /\ UNCHANGED <<page, localStorage, startupVars, sessionVars, sceneVars,
                 uiVars, captureVars, arrivedByNavigation, canvasDrawn,
                 downloadConfigured, shareConfigured, selects, lastSelect>>

\* image.onload: draw to #final-canvas and ask for a blob.  decoded = FALSE:
\* the stored string is no image, onload never fires.
ReviewImageLoad(decoded) ==
  /\ page = "review" /\ reviewPc = "imageLoading"
  /\ IF decoded
       THEN /\ canvasDrawn' = TRUE
            /\ reviewPc' = "blobPending"
       ELSE /\ reviewPc' = "imageFailed"
            /\ UNCHANGED canvasDrawn
  /\ UNCHANGED <<page, localStorage, startupVars, sessionVars, sceneVars,
                 uiVars, captureVars, arrivedByNavigation, imageData, imgSrc,
                 downloadConfigured, shareConfigured, reviewAlert,
                 selects, lastSelect>>

\* the canvas.toBlob callback: download link and share button
ReviewToBlob ==
  /\ page = "review" /\ reviewPc = "blobPending"
  /\ downloadConfigured' = TRUE
  /\ shareConfigured' = TRUE
  /\ reviewPc' = "ready"
  /\ UNCHANGED <<page, localStorage, startupVars, sessionVars, sceneVars,
                 uiVars, captureVars, arrivedByNavigation, imageData, imgSrc,
                 canvasDrawn, reviewAlert, selects, lastSelect>>

Next ==
  \/ StartupIIFE
  \/ AppConstructor
  \/ \E answer \in {"true", "false", "reject"} : SupportQuerySettled(answer)
  \/ activateXR
  \/ \E layerOk \in BOOLEAN, shadowMesh \in BOOLEAN :
        SessionGranted(layerOk, shadowMesh)
  \/ SessionDenied
  \/ onSessionStarted
  \/ onSessionStartedRejected
  \/ \E hasModel \in BOOLEAN : gltfLoaded(hasModel)
  \/ onSelect
  \/ \E pose \in BOOLEAN, h \in HitTestResults : onXRFrame(pose, h)
  \/ captureImage
  \/ \E i \in 1..MaxClicks, pose \in BOOLEAN, hasMediaDevices \in BOOLEAN :
        captureFrame(i, pose, hasMediaDevices)
  \/ \E i \in 1..MaxClicks : getUserMediaResolved(i)
  \/ \E i \in 1..MaxClicks : getUserMediaRejected(i)
  \/ \E tryThrows \in BOOLEAN : videoLoadedData(tryThrows)
  \/ \E i \in 1..MaxClicks, drawOk \in BOOLEAN : bannerOnload(i, drawOk)
  \/ \E i \in 1..MaxClicks : bannerOnerror(i)
  \/ LoadReviewPage
  \/ ReviewScript
  \/ \E decoded \in BOOLEAN : ReviewImageLoad(decoded)
  \/ ReviewToBlob

Spec == Init /\ [][Next]_vars

\* ================================================================== claims

\* C1: when the review script has run and localStorage holds no value (no
\* entry, or the empty string) under 'capturedImage', the alert 'No image data
\* available.' is shown and no rendering step has happened: the src of the
\* captured-image element is not set, nothing is drawn to the final canvas,
\* and neither the download link nor the share button is configured.
C1_NoImageNoRender ==
  ( /\ page = "review" /\ reviewPc # "unloaded"
    /\ (ImageKey \notin DOMAIN localStorage \/ localStorage[ImageKey] = "") )
  => /\ reviewAlert = "No image data available."
     /\ imgSrc = ""
     /\ ~canvasDrawn
     /\ ~downloadConfigured
     /\ ~shareConfigured
     /\ reviewPc = "alerted"

\* the review script has run on an empty-string entry
C1_Witness ==
  /\ reviewPc = "alerted"
  /\ ImageKey \in DOMAIN localStorage /\ localStorage[ImageKey] = ""

\* C2: every navigation to review.html is preceded by a write of the composed
\* image under the key the review script reads, so a review script that runs
\* as the result of that navigation finds the image and takes the render
\* branch, never the error branch.
C2_StoredBeforeNavigation ==
  /\ navigating =>
       /\ navCount > 0 /\ setItemCount >= navCount
       /\ ImageKey \in DOMAIN localStorage
       /\ \E i \in 1..Len(captures) :
             /\ captures[i].stage = "success"
             /\ localStorage[ImageKey] = toDataURL(i)
  /\ (arrivedByNavigation /\ reviewPc # "unloaded") =>
       /\ reviewPc # "alerted" /\ reviewAlert = ""
       /\ \E i \in 1..Len(captures) : imgSrc = toDataURL(i)

\* the review page was reached by navigation and rendered the image fully
C2_Witness ==
  arrivedByNavigation /\ reviewPc = "ready" /\ setItemCount > 0

\* C3: modelCloned starts false, only ever changes from false to true and
\* only in onSelect, and a select event that arrives when modelCloned is true
\* places nothing and changes nothing (model position and visibility,
\* capture-container display, shadow position, reticle).
C3_PlacedAtMostOnce ==
  /\ ~modelCloned
  /\ [][ /\ (modelCloned => modelCloned')
         /\ (modelCloned' # modelCloned => selects' = selects + 1)
         /\ ((modelCloned /\ selects' # selects) =>
               /\ lastSelect' = "ignored"
               /\ UNCHANGED <<sunflowerPosition, sunflowerVisible,
                              captureContainerDisplay, shadowY, reticle,
                              reticleVisible, reticlePosition, modelCloned>>)
     ]_vars

\* a select event arrived after the model had been placed
C3_Witness ==
  modelCloned /\ lastSelect = "ignored" /\ selects = 2

\* C4: for any sequence of clicks on the capture button at most one capture
\* pipeline runs (gets as far as asking for the camera stream), localStorage
\* 'capturedImage' is written at most once and navigation to the review page
\* is triggered at most once.
C4_OneShotCapture ==
  /\ Cardinality({i \in 1..Len(captures) :
                    captures[i].stage \in
                      {"gum", "video", "banner", "success", "denied",
                       "composeError", "bannerError", "storeError"}}) <= 1
  /\ setItemCount <= 1
  /\ navCount <= 1

\* C5: from the moment onSessionStarted has scheduled onXRFrame exactly one
\* onXRFrame callback is pending, whatever the frames deliver (and none
\* before); the one-shot frame callback of captureImage is not in that count
\* and, once run, is never pending again.
C5_FrameLoopRearms ==
  /\ [](pendingXRFrame = IF sessionPc = "running" THEN 1 ELSE 0)
  /\ [][ \A i \in 1..Len(captures) :
            captures[i].stage # "raf" =>
              (captures'[i].stage # "raf" /\ pendingXRFrame' = pendingXRFrame)
     ]_vars

\* onXRFrame has run with a hit-test result before and after the placement,
\* and a capture frame callback has run
C5_Witness ==
  /\ sessionPc = "running" /\ pendingXRFrame = 1
  /\ stabilized /\ reticleErrorLogged
  /\ \E i \in 1..Len(captures) : captures[i].stage # "raf"

\* C6: once the startup support query is over, exactly one of two things has
\* happened: onNoXRDevice was called and no click listener is registered on
\* #enter-ar, or the listener is registered, window.app exists and the
\* handler is App.activateXR.
C6_StartupOutcome ==
  (scriptPc = "loaded" /\ startupPc \notin {"init", "awaiting"}) =>
     \/ (startupPc = "noXR" /\ enterArHandler = "none")
     \/ (startupPc = "registered" /\ enterArHandler = "activateXR"
           /\ windowApp)

\* C7: a capture that has ended either succeeded (image stored, navigation
\* requested) or failed with a log entry or an alert; as long as no capture
\* has succeeded nothing is written to localStorage and nothing navigates.
C7_NoSilentEnd ==
  /\ \A i \in 1..Len(captures) :
        captures[i].stage \notin Running =>
          \/ (captures[i].stage = "success" /\ navigating
                /\ ImageKey \in DOMAIN localStorage)
          \/ (captures[i].stage \in Failed /\ captures[i].report # "none")
  /\ (\A i \in 1..Len(captures) : captures[i].stage # "success") =>
        (setItemCount = 0 /\ navCount = 0 /\ ~navigating)

C9_PlacedOnDetectedSurface ==
  modelCloned => (stabilized /\ reticleWritten /\ sunflower)

\* C10: once the model is placed no onXRFrame makes the reticle visible again
\* or moves it, and the model stays where the reticle was at the placing tap.
C10_PlacementFinal ==
  /\ [](modelCloned => sunflowerPosition = reticlePosition)
  /\ [][ modelCloned =>
           /\ reticlePosition' = reticlePosition
           /\ sunflowerPosition' = sunflowerPosition
           /\ (~reticleVisible => ~reticleVisible')
     ]_vars

\* a frame with a hit-test pose arrived after the model had been placed on a
\* detected surface
C10_Witness ==
  /\ modelCloned /\ reticleWritten /\ reticleErrorLogged
  /\ sunflowerPosition # Origin
====
